---- MODULE Spec2Model ----
(***************************************************************************)
(* Model of the doctopdf service: one endpoint, POST /convert-to-pdf, that *)
(* validates the uploaded file's extension, acquires a bearer token,       *)
(* uploads the file to a remote drive, downloads its PDF rendition,        *)
(* deletes the upload and streams the PDF back.                            *)
(*                                                                         *)
(* Every await of the endpoint is one action, together with the code that  *)
(* runs up to the next await; requests interleave between their awaits.    *)
(* The remote drive and the authorization server are the                   *)
(* environment: the drive is a map from path to stored file, each outbound *)
(* call has the outcomes the HTTP client can produce (a success status, a  *)
(* non-success status, a transport failure that raises).                   *)
(***************************************************************************)
EXTENDS Integers, Sequences, FiniteSets, TLC

\* ---------------------------------------------------------------- bounds
NumReqs == 2
Reqs == 1..NumReqs

\* ---------------------------------------------------------------- inputs
\* The files clients post: a filename (a sequence of characters) and the
\* bytes of the file.
File(name, bytes) == [filename |-> name, body |-> bytes]

Files ==
    { File(<<"r", ".", "d", "o", "c", "x">>, "X"),
      File(<<"r", ".", "d", "o", "c", "x">>, "Y"),
      File(<<"R", ".", "D", "o", "c", "X">>, "X"),
      File(<<"s", ".", "P", "P", "T", "x">>, "Y"),
      File(<<"i", ".", "p", "n", "g">>, "X"),
      File(<<"d", "o", "c", "x">>, "Y") }

Filenames == {f.filename : f \in Files}

None == "none"
NoBytes == <<>>
NoName == <<>>

\* ---------------------------------------------------------------- strings
UpperChars == <<"R", "D", "X", "P", "T">>
LowerChars == <<"r", "d", "x", "p", "t">>

\* str.lower() on one character
LowerChar(c) ==
    IF \E i \in 1..Len(UpperChars) : UpperChars[i] = c
    THEN LowerChars[CHOOSE i \in 1..Len(UpperChars) : UpperChars[i] = c]
    ELSE c

\* str.lower()
Lower(s) == [i \in 1..Len(s) |-> LowerChar(s[i])]

\* str.endswith(suffix)
EndsWith(s, suffix) ==
    /\ Len(s) >= Len(suffix)
    /\ SubSeq(s, Len(s) - Len(suffix) + 1, Len(s)) = suffix

DocxSuffix == <<".", "d", "o", "c", "x">>
PptxSuffix == <<".", "p", "p", "t", "x">>

\* Mutant: the extensions compared without their leading dot
ValidFilename_NoDot(filename) ==
    \/ EndsWith(Lower(filename), <<"d", "o", "c", "x">>)
    \/ EndsWith(Lower(filename), <<"p", "p", "t", "x">>)

\* main.py line 13: file.filename.lower().endswith((".docx", ".pptx"))
ValidFilename(filename) ==
    \/ EndsWith(Lower(filename), DocxSuffix)
    \/ EndsWith(Lower(filename), PptxSuffix)

\* ---------------------------------------------------------------- drive paths
\* Mutant: the delete URL built from the lower-cased filename
DeletePath_Lowered(filename) == Lower(filename)

\* Mutant: the upload URL built from the lower-cased filename
UploadPath_Lowered(filename) == Lower(filename)

\* The path segment of the three drive URLs: {BASE_URL}/root:/{filename}
UploadPath(filename) == filename
ConvertPath(filename) == filename
DeletePath(filename) == filename

\* The paths of the drive the model tracks: those a filename can name,
\* in either letter case
Paths == Filenames \cup {Lower(f) : f \in Filenames}

\* The PDF rendition the drive produces for stored content (opaque bytes).
Pdf(content) == <<"%PDF", content>>

\* Content-Disposition filename: f"{file.filename}.pdf"
DispositionName(filename) == filename \o <<".", "p", "d", "f">>

\* ---------------------------------------------------------------- state
VARIABLES
    pc,         \* pc[r]: position of request r in convert()
    filename,   \* filename[r]: file.filename
    body,       \* body[r]: bytes of the uploaded file
    token,      \* token[r]: local variable token
    content,    \* content[r]: local variable content
    pdf_bytes,  \* pdf_bytes[r]: local variable pdf_bytes
    exc,        \* exc[r]: exception in flight
    response,   \* response[r]: what the caller receives
    calls,      \* calls[r]: outbound calls issued by request r, in order
    drive       \* drive[p]: file stored at path p, or NoFile

vars == <<pc, filename, body, token, content, pdf_bytes, exc, response, calls, drive>>

NoResponse == [status |-> 0, detail |-> None, media_type |-> None,
               disposition |-> NoName, body |-> NoBytes]

\* What the drive holds at a path with no file
NoFile == [content |-> None, owner |-> 0]

Init ==
    /\ pc = [r \in Reqs |-> "idle"]
    /\ filename = [r \in Reqs |-> NoName]
    /\ body = [r \in Reqs |-> None]
    /\ token = [r \in Reqs |-> 0]
    /\ content = [r \in Reqs |-> None]
    /\ pdf_bytes = [r \in Reqs |-> NoBytes]
    /\ exc = [r \in Reqs |-> None]
    /\ response = [r \in Reqs |-> NoResponse]
    /\ calls = [r \in Reqs |-> <<>>]
    /\ drive = [p \in Paths |-> NoFile]

\* The record of one outbound call: what was sent and what came back
Call(op, path, tok, result, returned) ==
    [op |-> op, path |-> path, token |-> tok, result |-> result, returned |-> returned]

\* The response FastAPI produces for HTTPException(400, detail)
ValidationResponse ==
    [status |-> 400, detail |-> "Only DOCX or PPTX supported",
     media_type |-> "application/json", disposition |-> NoName, body |-> NoBytes]

\* The response produced when exception e escapes the endpoint
ErrorResponse(e) ==
    [status |-> 500, detail |-> e,
     media_type |-> "text/plain", disposition |-> NoName, body |-> NoBytes]

\* StreamingResponse(io.BytesIO(pdf_bytes), media_type=..., headers=...)
StreamingResponse(bytes, name) ==
    [status |-> 200, detail |-> None,
     media_type |-> "application/pdf", disposition |-> DispositionName(name), body |-> bytes]

\* main.py lines 12-14: a client posts a file to /convert-to-pdf and the
\* endpoint checks its extension; there is no await before the check.
Validate(r) ==
    /\ pc[r] = "idle"
    /\ \E f \in Files :
          /\ filename' = [filename EXCEPT ![r] = f.filename]
          /\ body' = [body EXCEPT ![r] = f.body]
          /\ IF ~ValidFilename(f.filename)
             THEN /\ response' = [response EXCEPT ![r] = ValidationResponse]
                  /\ pc' = [pc EXCEPT ![r] = "done"]
             ELSE /\ pc' = [pc EXCEPT ![r] = "token"]
                  /\ UNCHANGED response
    /\ UNCHANGED <<token, content, pdf_bytes, exc, calls, drive>>

\* Outcomes of a call whose response goes through raise_for_status(): a
\* success status, or an exception (non-success status or transport failure).
Outcomes == {"ok", "error"}

\* Mutant: a failed token request does not stop the endpoint
AfterToken_IgnoreFailure(result) == "upload"

\* Mutant: upload_file() outside the try block, so its exception leaves the
\* endpoint without the finally block
AfterUpload_NoFinally(result) == IF result = "ok" THEN "convert" ELSE "done"

\* Mutant: the status of the upload response is not checked
AfterUpload_IgnoreFailure(result) == "convert"

\* Mutant: delete_file() after the try block instead of in a finally block
AfterConvert_NoFinally(result) == IF result = "ok" THEN "delete" ELSE "done"

\* Mutant: a failed upload is tried again
AfterUpload_Retry(result) == IF result = "ok" THEN "convert" ELSE "upload"

\* Mutant: a failed convert is caught and the endpoint then waits on
\* something that never completes
AfterConvert_Hang(result) == IF result = "ok" THEN "delete" ELSE "suspended"

\* Where convert() goes after get_access_token(): an exception leaves the
\* endpoint, the try block is not entered.
AfterToken(result) == IF result = "ok" THEN "upload" ELSE "done"

\* Where convert() goes after upload_file(): an exception skips the rest of
\* the try block and enters the finally block.
AfterUpload(result) == IF result = "ok" THEN "convert" ELSE "delete"

\* Where convert() goes after convert_to_pdf(): the finally block, whether
\* the call returned or raised.
AfterConvert(result) == "delete"

\* The exception in flight after the finally block: delete_file() does not
\* inspect the status; an exception it raises replaces the one in flight.
ExcAfterDelete(e, result) == IF result = "raise" THEN "delete" ELSE e

\* Outcomes of the delete call, whose response status is not inspected: a
\* success status, a non-success status, or a transport failure that raises.
DeleteOutcomes == {"ok", "status", "raise"}

\* Mutant: get_access_token() keeps the first token in a module-level cache
\* and returns it to every request
AccessToken_Cached(r) == 1

\* res.json()["access_token"] of the response to request r's token call:
\* the authorization server issues a fresh token per call.
AccessToken(r) == r

\* main.py lines 16-17, token.py get_access_token
GetAccessToken(r) ==
    /\ pc[r] = "token"
    /\ \E result \in Outcomes :
          /\ calls' = [calls EXCEPT ![r] = Append(@, Call("token", NoName, 0, result, NoBytes))]
          /\ IF result = "ok"
             THEN /\ token' = [token EXCEPT ![r] = AccessToken(r)]
                  /\ content' = [content EXCEPT ![r] = body[r]]
                  /\ UNCHANGED response
             ELSE /\ response' = [response EXCEPT ![r] = ErrorResponse("token")]
                  /\ UNCHANGED <<token, content>>
          /\ pc' = [pc EXCEPT ![r] = AfterToken(result)]
    /\ UNCHANGED <<filename, body, pdf_bytes, exc, drive>>

StoredFile(r) == [content |-> content[r], owner |-> r]

\* main.py line 20, upload.py upload_file: the drive stores the bytes when
\* it answers with a success status, and stores nothing otherwise.
UploadFile(r) ==
    /\ pc[r] = "upload"
    /\ \E result \in Outcomes :
          /\ calls' = [calls EXCEPT ![r] =
                         Append(@, Call("upload", UploadPath(filename[r]), token[r], result, NoBytes))]
          /\ drive' = IF result = "ok"
                      THEN [drive EXCEPT ![UploadPath(filename[r])] = StoredFile(r)]
                      ELSE drive
          /\ exc' = IF result = "ok" THEN exc ELSE [exc EXCEPT ![r] = "upload"]
          /\ pc' = [pc EXCEPT ![r] = AfterUpload(result)]
    /\ UNCHANGED <<filename, body, token, content, pdf_bytes, response>>

\* main.py line 21, upload.py convert_to_pdf
ConvertToPdf(r) ==
    /\ pc[r] = "convert"
    /\ \E result \in Outcomes :
          /\ result = "ok" => drive[ConvertPath(filename[r])] # NoFile
          /\ LET returned == IF result = "ok"
                              THEN Pdf(drive[ConvertPath(filename[r])].content)
                              ELSE NoBytes
             IN /\ calls' = [calls EXCEPT ![r] =
                               Append(@, Call("convert", ConvertPath(filename[r]), token[r],
                                              result, returned))]
                /\ IF result = "ok"
                   THEN /\ pdf_bytes' = [pdf_bytes EXCEPT ![r] = returned]
                        /\ UNCHANGED exc
                   ELSE /\ exc' = [exc EXCEPT ![r] = "convert"]
                        /\ UNCHANGED pdf_bytes
          /\ pc' = [pc EXCEPT ![r] = AfterConvert(result)]
    /\ UNCHANGED <<filename, body, token, content, response, drive>>

\* Mutant: the exception in flight is swallowed and the response built anyway
ResponseFor_SwallowException(e, bytes, name) == StreamingResponse(bytes, name)

\* What the caller receives once the finally block is done: the
\* StreamingResponse of lines 25-31, or the error for the exception in flight
ResponseFor(e, bytes, name) ==
    IF e # None THEN ErrorResponse(e) ELSE StreamingResponse(bytes, name)

\* main.py lines 22-31, upload.py delete_file: the response status is not
\* inspected, a transport failure propagates out of the finally block. Once
\* delete_file() is over the endpoint runs to its end without another await:
\* it returns the StreamingResponse or lets the exception in flight out.
DeleteFile(r) ==
    /\ pc[r] = "delete"
    /\ \E result \in DeleteOutcomes :
          /\ result = "ok" => drive[DeletePath(filename[r])] # NoFile
          /\ calls' = [calls EXCEPT ![r] =
                         Append(@, Call("delete", DeletePath(filename[r]), token[r], result, NoBytes))]
          /\ drive' = IF result = "ok"
                      THEN [drive EXCEPT ![DeletePath(filename[r])] = NoFile]
                      ELSE drive
          /\ exc' = [exc EXCEPT ![r] = ExcAfterDelete(@, result)]
          /\ response' = [response EXCEPT ![r] =
                             ResponseFor(ExcAfterDelete(exc[r], result), pdf_bytes[r], filename[r])]
          /\ pc' = [pc EXCEPT ![r] = "done"]
    /\ UNCHANGED <<filename, body, token, content, pdf_bytes>>

Next ==
    \E r \in Reqs :
        \/ Validate(r)
        \/ GetAccessToken(r)
        \/ UploadFile(r)
        \/ ConvertToPdf(r)
        \/ DeleteFile(r)

Spec == Init /\ [][Next]_vars

\* Every outbound call eventually returns or fails: an awaited call of a
\* request that has been received is eventually resumed. Nothing obliges a
\* client to post a request.
Fairness ==
    \A r \in Reqs :
        /\ WF_vars(GetAccessToken(r))
        /\ WF_vars(UploadFile(r))
        /\ WF_vars(ConvertToPdf(r))
        /\ WF_vars(DeleteFile(r))

LiveSpec == Spec /\ Fairness

TypeOK ==
    /\ pc \in [Reqs -> {"idle", "token", "upload", "convert", "delete", "done"}]

\* ---------------------------------------------------------------- observations
\* The operations of the outbound calls request r has issued, in order
Ops(r) == [i \in 1..Len(calls[r]) |-> calls[r][i].op]

\* How many calls of operation op request r has issued
Count(r, op) == Cardinality({i \in 1..Len(calls[r]) : calls[r][i].op = op})

Attempted(r, op) == Count(r, op) > 0
Succeeded(r, op) == \E i \in 1..Len(calls[r]) : calls[r][i].op = op /\ calls[r][i].result = "ok"
Failed(r, op) == \E i \in 1..Len(calls[r]) : calls[r][i].op = op /\ calls[r][i].result # "ok"

\* The request has arrived
Received(r) == pc[r] # "idle"

\* The request has reached a terminal state
Terminal(r) == pc[r] = "done"

\* The three terminal states of a request
ValidationRejected(r) == Terminal(r) /\ response[r] = ValidationResponse
UpstreamError(r) == Terminal(r) /\ response[r].status = 500 /\ response[r].body = NoBytes
SuccessResponse(r) == Terminal(r) /\ response[r].status = 200

\* The filename ends, case-insensitively, in the extension ext: stated
\* character by character, without str.lower().
SameLetter(c, d) ==
    \/ c = d
    \/ \E i \in 1..Len(UpperChars) :
          \/ c = UpperChars[i] /\ d = LowerChars[i]
          \/ c = LowerChars[i] /\ d = UpperChars[i]

HasExtension(name, ext) ==
    /\ Len(name) >= Len(ext)
    /\ \A i \in 1..Len(ext) : SameLetter(name[Len(name) - Len(ext) + i], ext[i])

OfficeDocument(name) == HasExtension(name, DocxSuffix) \/ HasExtension(name, PptxSuffix)

\* ---------------------------------------------------------------- claims

\* C1: a request whose filename does not end, case-insensitively, in .docx
\* or .pptx issues no outbound call at all and ends validation-rejected:
\* status 400, detail "Only DOCX or PPTX supported".
C1_InvalidFilenameRejected ==
    \A r \in Reqs :
        (Received(r) /\ ~OfficeDocument(filename[r])) =>
            /\ calls[r] = <<>>
            /\ Terminal(r)
            /\ response[r].status = 400
            /\ response[r].detail = "Only DOCX or PPTX supported"

C1_Witness ==
    \E r \in Reqs :
        /\ ValidationRejected(r)
        /\ filename[r] = <<"d", "o", "c", "x">>
        /\ calls[r] = <<>>

\* C2 as stated: for a valid filename (and an acquired token) the outbound
\* calls are exactly token, upload, convert, delete, whether upload or
\* convert succeeds or fails.
C2_AlwaysFourCalls ==
    \A r \in Reqs :
        (Terminal(r) /\ OfficeDocument(filename[r]) /\ Succeeded(r, "token")) =>
            Ops(r) = <<"token", "upload", "convert", "delete">>

\* C2 amended: for a valid filename and an acquired token the outbound calls
\* are token, upload, convert, delete in that order when upload succeeds
\* (whether convert succeeds or fails), and token, upload, delete when upload
\* fails: convert is skipped. At every moment the calls issued so far are a
\* prefix of that sequence.
IsPrefix(s, t) == Len(s) <= Len(t) /\ SubSeq(t, 1, Len(s)) = s

C2_CallSequence ==
    \A r \in Reqs :
        (Received(r) /\ OfficeDocument(filename[r])) =>
            LET expected == IF Failed(r, "upload")
                            THEN <<"token", "upload", "delete">>
                            ELSE <<"token", "upload", "convert", "delete">>
                issued == Ops(r)
            IN /\ IsPrefix(issued, expected)
               /\ (Terminal(r) /\ Succeeded(r, "token")) => issued = expected

C2_Witness ==
    \E r, q \in Reqs :
        /\ Terminal(r) /\ Failed(r, "upload")
        /\ Ops(r) = <<"token", "upload", "delete">>
        /\ Terminal(q) /\ Failed(q, "convert")
        /\ Ops(q) = <<"token", "upload", "convert", "delete">>

\* C3: when the delete call fails, by a non-success status or by a transport
\* failure that raises, the caller receives what it would have received had
\* the delete succeeded: the PDF when convert succeeded, the upload or convert
\* error otherwise.
ResponseBeforeCleanup(r) ==
    IF Failed(r, "upload") THEN ErrorResponse("upload")
    ELSE IF Failed(r, "convert") THEN ErrorResponse("convert")
    ELSE StreamingResponse(pdf_bytes[r], filename[r])

C3_DeleteFailureInvisible ==
    \A r \in Reqs :
        (Terminal(r) /\ Failed(r, "delete")) => response[r] = ResponseBeforeCleanup(r)

\* C4: a request's outcome is what it would have been had the request run
\* alone: a success response carries the PDF rendition of the request's own
\* file, whatever other requests do meanwhile.
C4_OwnRendition ==
    \A r \in Reqs :
        SuccessResponse(r) => response[r].body = Pdf(body[r])

\* C5: when the upload call fails, convert is never invoked for that request,
\* delete is invoked exactly once, and the request ends in the upstream-error
\* state.
C5_UploadFailureSkipsConvert ==
    \A r \in Reqs :
        Failed(r, "upload") =>
            /\ Count(r, "convert") = 0
            /\ pc[r] \in {"delete", "done"}
            /\ Count(r, "delete") = (IF Terminal(r) THEN 1 ELSE 0)
            /\ Terminal(r) => UpstreamError(r)

C5_Witness ==
    \E r \in Reqs :
        /\ Failed(r, "upload")
        /\ UpstreamError(r)
        /\ Count(r, "delete") = 1

\* C6: once upload has been attempted, on every exit path (upload fails,
\* convert fails, both succeed) delete is invoked exactly once, and before
\* the response is produced.
C6_DeleteOnEveryExitPath ==
    \A r \in Reqs :
        /\ Count(r, "delete") <= 1
        /\ Attempted(r, "delete") => Attempted(r, "upload")
        /\ (Attempted(r, "upload") /\ response[r] # NoResponse) =>
              /\ Count(r, "delete") = 1
              /\ calls[r][Len(calls[r])].op = "delete"
        /\ (Attempted(r, "upload") /\ Terminal(r)) => Count(r, "delete") = 1

C6_Witness ==
    \E r, q \in Reqs :
        /\ Terminal(r) /\ Failed(r, "convert") /\ Count(r, "delete") = 1
        /\ Terminal(q) /\ Succeeded(q, "convert") /\ Count(q, "delete") = 1

\* C7: when token acquisition fails the request ends in the upstream-error
\* state and no upload, convert or delete call is ever issued for it.
C7_TokenFailureIsTerminal ==
    \A r \in Reqs :
        Failed(r, "token") =>
            /\ UpstreamError(r)
            /\ Ops(r) = <<"token">>

C7_Witness ==
    \E r \in Reqs :
        /\ Failed(r, "token")
        /\ UpstreamError(r)
        /\ OfficeDocument(filename[r])

\* C8: when the filename is valid and the token, upload and convert calls all
\* succeed, the response is 200, application/pdf, with Content-Disposition
\* filename the original filename followed by ".pdf", and its body is the
\* bytes the convert call returned.
ConvertReturned(r) ==
    calls[r][CHOOSE i \in 1..Len(calls[r]) : calls[r][i].op = "convert"].returned

C8_SuccessResponse ==
    \A r \in Reqs :
        (Terminal(r) /\ OfficeDocument(filename[r]) /\ Succeeded(r, "token")
           /\ Succeeded(r, "upload") /\ Succeeded(r, "convert")) =>
            /\ response[r].status = 200
            /\ response[r].media_type = "application/pdf"
            /\ response[r].disposition = filename[r] \o <<".", "p", "d", "f">>
            /\ response[r].body = ConvertReturned(r)

\* C9: a request produces a success response only if its token request, its
\* upload and its convert all succeeded; in every other case the caller
\* receives an error response and no PDF bytes.
C9_NoPartialSuccess ==
    \A r \in Reqs :
        LET allSucceeded == /\ Succeeded(r, "token")
                            /\ Succeeded(r, "upload")
                            /\ Succeeded(r, "convert")
        IN /\ response[r].status = 200 => allSucceeded
           /\ (Terminal(r) /\ ~allSucceeded) =>
                 /\ response[r].status >= 400
                 /\ response[r].body = NoBytes

C9_Witness ==
    \E r, q \in Reqs :
        /\ Terminal(r) /\ Succeeded(r, "upload") /\ Failed(r, "convert")
        /\ response[r].status >= 400 /\ response[r].body = NoBytes
        /\ SuccessResponse(q) /\ Succeeded(q, "convert")

\* C10: once a request has reached a terminal state and its delete call
\* succeeded, the file it uploaded is no longer on the drive, whatever other
\* requests ran before or meanwhile.
C10_UploadRemovedAfterRequest ==
    \A r \in Reqs :
        (Terminal(r) /\ Succeeded(r, "delete")) =>
            \A p \in DOMAIN drive : drive[p].owner # r

C10_Witness ==
    \E r, q \in Reqs :
        /\ r # q
        /\ Terminal(r) /\ Succeeded(r, "upload") /\ Succeeded(r, "delete")
        /\ Terminal(q) /\ Succeeded(q, "upload") /\ Succeeded(q, "delete")
        /\ \A p \in DOMAIN drive : drive[p] = NoFile

\* C11: every request that passes validation issues its own token request,
\* its upload, convert and delete calls all carry the token that request
\* returned, and no token carried by one request's calls is carried by
\* another request's calls.
DriveCalls(r) == {i \in 1..Len(calls[r]) : calls[r][i].op # "token"}

C11_OwnFreshToken ==
    \A r \in Reqs :
        /\ (Received(r) /\ OfficeDocument(filename[r]) /\ pc[r] # "token") =>
              /\ Count(r, "token") = 1
              /\ calls[r][1].op = "token"
        /\ \A i \in DriveCalls(r) :
              /\ Succeeded(r, "token")
              /\ calls[r][i].token = token[r]
              /\ \A q \in Reqs \ {r} : \A j \in DriveCalls(q) :
                    calls[q][j].token # calls[r][i].token

C11_Witness ==
    \E r, q \in Reqs :
        /\ r # q
        /\ Terminal(r) /\ Cardinality(DriveCalls(r)) = 3
        /\ Terminal(q) /\ Cardinality(DriveCalls(q)) = 3
        /\ filename[r] = filename[q]
        /\ token[r] # token[q]

\* C12: provided every outbound call eventually returns or fails, from some
\* moment on every request that has been received is, and remains, in a
\* terminal state; a terminal request is in exactly one of success-response,
\* validation-rejected and upstream-error, and it stays there with the same
\* response and no further call.
TerminalStates(r) ==
    {t \in {"success-response", "validation-rejected", "upstream-error"} :
        \/ t = "success-response" /\ SuccessResponse(r)
        \/ t = "validation-rejected" /\ ValidationRejected(r)
        \/ t = "upstream-error" /\ UpstreamError(r)}

C12_ReachesOneTerminalState ==
    /\ <>[](\A r \in Reqs : Received(r) => Cardinality(TerminalStates(r)) = 1)
    /\ [](\A r \in Reqs : Terminal(r) => Cardinality(TerminalStates(r)) = 1)
    /\ [][\A r \in Reqs :
             Terminal(r) => /\ pc'[r] = "done"
                            /\ response'[r] = response[r]
                            /\ calls'[r] = calls[r]]_vars

C12_Witness ==
    \E r, q \in Reqs :
        /\ TerminalStates(r) = {"success-response"}
        /\ TerminalStates(q) = {"upstream-error"} /\ Failed(q, "convert")

\* C13: within one request each of the four outbound calls (token request,
\* upload, convert, delete) is issued at most once, whatever the outcome of
\* any call.
C13_NoRetry ==
    \A r \in Reqs :
        \A op \in {"token", "upload", "convert", "delete"} : Count(r, op) <= 1

C13_Witness ==
    \E r, q \in Reqs :
        /\ Terminal(r) /\ Failed(r, "upload") /\ Count(r, "upload") = 1
        /\ Terminal(q) /\ Failed(q, "convert") /\ Failed(q, "delete")
        /\ \A op \in {"token", "upload", "convert", "delete"} : Count(q, op) = 1

\* C14: within one request the upload, convert and delete calls all address
\* the same remote path, the original filename exactly as the caller supplied
\* it: its letter case is not changed by the extension check.
C14_SamePathAsSupplied ==
    \A r \in Reqs :
        \A i \in 1..Len(calls[r]) :
            calls[r][i].op # "token" =>
                /\ calls[r][i].path = filename[r]
                /\ \E f \in Files : f.filename = calls[r][i].path

C14_Witness ==
    \E r \in Reqs :
        /\ Terminal(r)
        /\ filename[r] = <<"R", ".", "D", "o", "c", "X">>
        /\ Ops(r) = <<"token", "upload", "convert", "delete">>
        /\ \A i \in 2..4 : calls[r][i].path = <<"R", ".", "D", "o", "c", "X">>

====
